---------------------------- MODULE Spec2Model ----------------------------
(***************************************************************************)
(* Model of the content site's core:                                       *)
(*   - the view-recording protocol of pages/PostDetail.tsx together with   *)
(*     usePosts (fetchPosts, incrementViewCount)            -> Spec        *)
(*   - the useSearch hook                                   -> SpecSearch  *)
(*   - the listing pipeline of pages/Posts.tsx              -> SpecList    *)
(*   - the stored procedure increment_post_view_count       -> SpecStore   *)
(* Each specification moves its own group of variables and leaves the      *)
(* other groups at their initial value.                                    *)
(***************************************************************************)
EXTENDS Integers, Sequences, FiniteSets, TLC

\* ------------------------------------------------------------------ bounds
\* model time advances in steps of TickMs milliseconds
TickMs == 100
\* number of times the detail view is mounted in one behaviour
MaxMounts == 2
\* increment requests issued in one behaviour
MaxRequests == 2
\* search requests issued in one behaviour
MaxSearches == 2
\* longest search query, in characters
MaxQueryLen == 2
\* post ids that a search response may carry
MaxRows == 2
\* rows of the posts collection handed to the listing page
MaxPosts == 3
\* the listing page's clock runs over days 1..MaxNow
MaxNow == 3
\* concurrent calls of increment_post_view_count
NumCalls == 2
\* posts in the store
NumPosts == 2
\* largest view_count a post starts with
MaxInitViews == 1
\* posts that exist at once in the table behind usePosts
MaxStored == 1
\* largest view_count the posts hook writes or reaches
MaxViewCount == 2
\* fetchPosts (fetchComments) requests in flight at once
MaxFetches == 2
\* comments that addComment may create
MaxComments == 2

\* --------------------------------------------------------------- constants
\* setTimeout(recordView, 2000)
TimerDelay == 2000

Null == "null"
NoTimer == -1

VARIABLES
  \* ---- PostDetail instance and its usePosts hook
  mounted,         \* the detail view is mounted
  mountId,         \* number of the current (or last) mount, 1..MaxMounts
  age,             \* ms since the current mount (frozen at unmount, capped)
  slug,            \* the slug route parameter
  posts,           \* usePosts.posts: <<>> while empty, else <<[slug -> row]>>
  postsLoading,    \* usePosts.loading
  postsError,      \* usePosts.error
  viewRecorded,    \* useState(false) of PostDetail
  timer,           \* NoTimer, or ms left on the pending setTimeout
  initFetch,       \* [mount -> the fetchPosts of the mount effect is in flight]
  rpcPending,      \* [mount -> [slug -> increment_post_view_count requests in flight]]
  refetchPending,  \* [mount -> fetchPosts requests in flight after an increment]
  storeViews,      \* [slug -> posts.view_count of that post in the store]
  storeViewRows,   \* number of post_views rows of the post in the store
  reqCount,        \* [mount -> increment requests issued by that mount] (history)
  reqAtUnmount,    \* reqCount of the last mount at the moment it was unmounted (history)
  logged,          \* number of console.error calls of recordView (history)
  reqAtFail,       \* [mount -> <<>>, or <<reqCount at its last failed request>>] (history)
  recordedAt,      \* <<>>, or <<slug and reqCount when viewRecorded became true>> (history)
  orphanTimers,    \* timeouts of earlier effect runs that no cleanup cleared
  \* ---- useSearch
  results,         \* useSearch.results (ids of the rows, in order)
  sLoading,        \* useSearch.loading
  sError,          \* useSearch.error
  sInflight,       \* ids of the search_posts requests in flight
  sIssued,         \* number of search_posts requests issued so far
  sDirty,          \* in-flight requests that saw another search fail meanwhile (history)
  sLast,           \* the last event of the hook and the state before it (history)
  \* ---- Posts page
  lposts,          \* usePosts.posts as the Posts page holds it
  categories,      \* useCategories.categories
  selectedCategory,\* 'all' or a category id
  sortBy,          \* 'newest' | 'oldest' | 'popular'
  showFeaturedOnly,
  now,             \* the current day
  filteredAndSortedPosts,  \* the useMemo value of the last render
  lastRender,      \* the useMemo value and the filter state of the render before (history)
  \* ---- the store running increment_post_view_count
  txPc,            \* [call -> "idle" | "inserted" | "updated" | "committed" | "aborted"]
  txPost,          \* [call -> post_id_param]
  txNew,           \* [call -> the view_count its UPDATE wrote, not yet committed]
  rowLock,         \* [post -> the call holding the row lock of posts(id), or 0]
  dbViews,         \* [post -> committed posts.view_count]
  dbViewRows,      \* [post -> committed post_views rows]
  views0,          \* [post -> view_count before any call] (history)
  txOverlap,       \* [post -> two calls for it were in progress together] (history)
  \* ---- usePosts mutations and the posts table
  tblPosts,        \* [id -> <<>> (no row) or <<view_count>>] of the posts table
  hookPosts,       \* usePosts.posts, same shape
  hookFetches,     \* fetchPosts requests in flight
  tblBefore,       \* tblPosts before the last mutation call (history)
  hookLoading,     \* usePosts.loading
  hookError,       \* usePosts.error
  lastMut,         \* the last mutation call and how it ended (history)
  lastFetch,       \* how the last completed fetchPosts ended (history)
  fetchFailedOnce, \* some fetchPosts has failed (history)
  \* ---- useComments and the comments table
  tblComments,     \* rows of the comments table in created_at order
  cPostId,         \* the postId argument of the hook: <<>> (undefined) or <<id>>
  cRole,           \* the role the hook's client has in the store
  comments,        \* useComments.comments
  cLoading,        \* useComments.loading
  cError,          \* useComments.error
  cInflight,       \* responses of the fetchComments requests in flight
  cCreatedAs,      \* [comment id -> status it was inserted with] (history)
  cEverApproved,   \* ids of the comments that were approved at some time (history)
  cLastMut,        \* the last addComment call and how it ended (history)
  \* ---- useNewsletter and the newsletter_subscriptions table
  tblNews,         \* [email -> "none" (no row) or the status of its row]
  nRole,           \* the role the hook's client has in the store
  nLoading,        \* useNewsletter.loading
  nError,          \* useNewsletter.error
  nInflight,       \* the subscribe / unsubscribe requests in flight
  nLast            \* the last event of the hook and the row before it (history)

viewVars == <<mounted, mountId, age, posts, postsLoading, postsError, viewRecorded,
              timer, initFetch, rpcPending, refetchPending, storeViews,
              storeViewRows, reqCount, reqAtUnmount, logged, slug, reqAtFail,
              recordedAt, orphanTimers>>

searchVars == <<results, sLoading, sError, sInflight, sIssued, sDirty, sLast>>

listVars == <<lposts, categories, selectedCategory, sortBy, showFeaturedOnly, now,
              filteredAndSortedPosts, lastRender>>

storeVars == <<txPc, txPost, txNew, rowLock, dbViews, dbViewRows, views0, txOverlap>>

mutVars == <<tblPosts, hookPosts, hookFetches, tblBefore, hookLoading, hookError,
             lastMut, lastFetch, fetchFailedOnce>>

commentVars == <<tblComments, cPostId, cRole, comments, cLoading, cError, cInflight,
                 cCreatedAs, cEverApproved, cLastMut>>

newsVars == <<tblNews, nRole, nLoading, nError, nInflight, nLast>>

vars == <<viewVars, searchVars, listVars, storeVars, mutVars, commentVars, newsVars>>

Mounts == 1..MaxMounts

Min(a, b) == IF a < b THEN a ELSE b
Max(a, b) == IF a > b THEN a ELSE b

\* =========================================================================
\*  View-recording protocol (PostDetail.tsx 12-42, usePosts)
\* =========================================================================

\* variant: a cleanup that leaves the timeout pending
CleanupLeak(t) == t
\* the effect's cleanup: () => clearTimeout(timer)
Cleanup(t) == NoTimer

\* variant: an effect that arms the timer without looking at viewRecorded
RecordViewEffectUnguarded(t, post, recorded) ==
  LET cleared == Cleanup(t)
  IN  IF post # <<>> THEN TimerDelay ELSE cleared

\* One run of the effect of PostDetail after a render: React first runs the
\* cleanup of the previous run, then the body.  incrementViewCount is a new
\* function on every render of usePosts, so the dependency array changes on
\* every render and the effect runs after each of them.
RecordViewEffect(t, post, recorded) ==
  LET cleared == Cleanup(t)
  IN  IF post # <<>> /\ ~recorded THEN TimerDelay ELSE cleared

\* the timeouts left behind by one run of the effect: the previous timeout, if
\* the cleanup did not clear it and the body arms a new one
OrphansAfterEffect(n, t, post, recorded) ==
  IF post # <<>> /\ ~recorded /\ Cleanup(t) # NoTimer THEN n + 1 ELSE n

\* the posts a detail view is opened for (both are in the store)
Slugs == {"a", "b"}

\* const post = posts.find(p => p.slug === slug): <<>> stands for undefined
FindPost(ps, sl) == IF Len(ps) > 0 THEN <<ps[1][sl]>> ELSE <<>>

\* the rows fetchPosts puts into the posts state
FetchedPosts == <<[sl \in Slugs |-> [view_count |-> storeViews[sl]]]>>

ViewInit ==
  /\ mounted = TRUE
  /\ mountId = 1
  /\ age = 0
  /\ posts = <<>>
  /\ postsLoading = TRUE
  /\ postsError = Null
  /\ viewRecorded = FALSE
  /\ timer = NoTimer
  /\ initFetch = [m \in Mounts |-> m = 1]
  /\ rpcPending = [m \in Mounts |-> [sl \in Slugs |-> 0]]
  /\ refetchPending = [m \in Mounts |-> 0]
  /\ storeViews = [sl \in Slugs |-> 0]
  /\ storeViewRows = 0
  /\ reqCount = [m \in Mounts |-> 0]
  /\ reqAtUnmount = 0
  /\ logged = 0
  /\ slug = "a"
  /\ reqAtFail = [m \in Mounts |-> <<>>]
  /\ recordedAt = <<>>
  /\ orphanTimers = 0

\* the component is mounted (again) for the post sl: fresh hook state, usePosts'
\* mount effect calls fetchPosts, the effect of PostDetail finds no post yet
Mount(sl) ==
  /\ ~mounted
  /\ mountId < MaxMounts
  /\ mounted' = TRUE
  /\ mountId' = mountId + 1
  /\ age' = 0
  /\ posts' = <<>>
  /\ postsLoading' = TRUE
  /\ postsError' = Null
  /\ viewRecorded' = FALSE
  /\ slug' = sl
  /\ timer' = RecordViewEffect(timer, FindPost(<<>>, sl), FALSE)
  /\ orphanTimers' = OrphansAfterEffect(orphanTimers, timer, FindPost(<<>>, sl), FALSE)
  /\ initFetch' = [initFetch EXCEPT ![mountId + 1] = TRUE]
  /\ reqAtUnmount' = 0
  /\ recordedAt' = <<>>
  /\ UNCHANGED <<rpcPending, refetchPending, storeViews, storeViewRows, reqCount, logged,
                 reqAtFail>>

\* navigation away: React runs the effect's cleanup
Unmount ==
  /\ mounted
  /\ mounted' = FALSE
  /\ timer' = Cleanup(timer)
  /\ reqAtUnmount' = reqCount[mountId]
  /\ UNCHANGED <<mountId, age, posts, postsLoading, postsError, viewRecorded, initFetch,
                 rpcPending, refetchPending, storeViews, storeViewRows, reqCount, logged,
                 slug, reqAtFail, recordedAt,
                 orphanTimers>>

\* the response of the mount's fetchPosts arrives (ok or error)
InitFetchDone(m, ok) ==
  /\ initFetch[m]
  /\ initFetch' = [initFetch EXCEPT ![m] = FALSE]
  /\ IF mounted /\ m = mountId
       THEN /\ posts' = IF ok THEN FetchedPosts ELSE posts
            /\ postsError' = IF ok THEN postsError ELSE "fetch failed"
            /\ postsLoading' = FALSE
            /\ timer' = RecordViewEffect(timer, FindPost(posts', slug), viewRecorded)
            /\ orphanTimers' = OrphansAfterEffect(orphanTimers, timer, FindPost(posts', slug), viewRecorded)
       ELSE UNCHANGED <<posts, postsError, postsLoading, timer, orphanTimers>>
  /\ UNCHANGED <<mounted, mountId, age, viewRecorded, rpcPending, refetchPending,
                 storeViews, storeViewRows, reqCount, reqAtUnmount, logged,
                 slug, reqAtFail, recordedAt>>

\* any other render of PostDetail (useAuthors state, parent, router)
Rerender ==
  /\ mounted
  /\ timer' = RecordViewEffect(timer, FindPost(posts, slug), viewRecorded)
  /\ orphanTimers' = OrphansAfterEffect(orphanTimers, timer, FindPost(posts, slug), viewRecorded)
  /\ UNCHANGED <<mounted, mountId, age, posts, postsLoading, postsError, viewRecorded,
                 initFetch, rpcPending, refetchPending, storeViews, storeViewRows,
                 reqCount, reqAtUnmount, logged, slug, reqAtFail, recordedAt>>

\* the route changes to the detail page of another post: the router keeps the
\* PostDetail instance (and its state) and renders it with the new slug
SlugChange(sl) ==
  /\ mounted
  /\ sl # slug
  /\ slug' = sl
  /\ timer' = RecordViewEffect(timer, FindPost(posts, sl), viewRecorded)
  /\ orphanTimers' = OrphansAfterEffect(orphanTimers, timer, FindPost(posts, sl), viewRecorded)
  /\ UNCHANGED <<mounted, mountId, age, posts, postsLoading, postsError, viewRecorded,
                 initFetch, rpcPending, refetchPending, storeViews, storeViewRows,
                 reqCount, reqAtUnmount, logged, reqAtFail, recordedAt>>

\* TickMs of time pass
Tick ==
  /\ age < TimerDelay \/ timer > 0
  /\ age' = IF mounted THEN Min(age + TickMs, TimerDelay) ELSE age
  /\ timer' = IF timer > 0 THEN Max(timer - TickMs, 0) ELSE timer
  /\ UNCHANGED <<mounted, mountId, posts, postsLoading, postsError, viewRecorded,
                 initFetch, rpcPending, refetchPending, storeViews, storeViewRows,
                 reqCount, reqAtUnmount, logged, slug, reqAtFail, recordedAt,
                 orphanTimers>>

RECURSIVE SumTo(_, _)
SumTo(f, n) == IF n = 0 THEN 0 ELSE f[n] + SumTo(f, n - 1)

\* increment requests issued by all mounts so far
RequestsIssued == SumTo(reqCount, MaxMounts)

\* the timeout fires: recordView() calls incrementViewCount, which issues the rpc
TimerFire ==
  /\ timer = 0
  /\ RequestsIssued < MaxRequests
  /\ timer' = NoTimer
  /\ rpcPending' = [rpcPending EXCEPT ![mountId][slug] = @ + 1]
  /\ reqCount' = [reqCount EXCEPT ![mountId] = @ + 1]
  /\ UNCHANGED <<mounted, mountId, age, posts, postsLoading, postsError, viewRecorded,
                 initFetch, refetchPending, storeViews, storeViewRows, reqAtUnmount, logged,
                 slug, reqAtFail, recordedAt,
                 orphanTimers>>

\* the rpc succeeds: the store has run increment_post_view_count; incrementViewCount
\* goes on to `await fetchPosts()`, whose setLoading(true) renders the component
RpcSuccess(m, sl) ==
  /\ rpcPending[m][sl] > 0
  /\ rpcPending' = [rpcPending EXCEPT ![m][sl] = @ - 1]
  /\ storeViews' = [storeViews EXCEPT ![sl] = @ + 1]
  /\ storeViewRows' = storeViewRows + 1
  /\ refetchPending' = [refetchPending EXCEPT ![m] = @ + 1]
  /\ IF mounted /\ m = mountId
       THEN /\ postsLoading' = TRUE
            /\ timer' = RecordViewEffect(timer, FindPost(posts, slug), viewRecorded)
            /\ orphanTimers' = OrphansAfterEffect(orphanTimers, timer, FindPost(posts, slug), viewRecorded)
       ELSE UNCHANGED <<postsLoading, timer, orphanTimers>>
  /\ UNCHANGED <<mounted, mountId, age, posts, postsError, viewRecorded, initFetch,
                 reqCount, reqAtUnmount, logged, slug, reqAtFail, recordedAt>>

\* the rpc fails: incrementViewCount throws, recordView logs and swallows
RpcFail(m, sl) ==
  /\ rpcPending[m][sl] > 0
  /\ rpcPending' = [rpcPending EXCEPT ![m][sl] = @ - 1]
  /\ logged' = logged + 1
  /\ reqAtFail' = [reqAtFail EXCEPT ![m] = <<reqCount[m]>>]
  /\ UNCHANGED <<mounted, mountId, age, posts, postsLoading, postsError, viewRecorded,
                 timer, initFetch, refetchPending, storeViews, storeViewRows,
                 reqCount, reqAtUnmount, slug, recordedAt,
                 orphanTimers>>

\* the refetch after an increment completes (fetchPosts catches its own error),
\* incrementViewCount resolves and recordView calls setViewRecorded(true)
RefetchDone(m, ok) ==
  /\ refetchPending[m] > 0
  /\ refetchPending' = [refetchPending EXCEPT ![m] = @ - 1]
  /\ IF mounted /\ m = mountId
       THEN /\ posts' = IF ok THEN FetchedPosts ELSE posts
            /\ postsError' = IF ok THEN postsError ELSE "fetch failed"
            /\ postsLoading' = FALSE
            /\ viewRecorded' = TRUE
            /\ timer' = RecordViewEffect(timer, FindPost(posts', slug), TRUE)
            /\ orphanTimers' = OrphansAfterEffect(orphanTimers, timer, FindPost(posts', slug), TRUE)
            /\ recordedAt' = IF viewRecorded THEN recordedAt
                             ELSE <<[slug |-> slug, req |-> reqCount[m]]>>
       ELSE UNCHANGED <<posts, postsError, postsLoading, viewRecorded, timer, recordedAt, orphanTimers>>
  /\ UNCHANGED <<mounted, mountId, age, initFetch, rpcPending, storeViews,
                 storeViewRows, reqCount, reqAtUnmount, logged, slug, reqAtFail>>

\* =========================================================================
\*  useSearch (components/PostCard.tsx 437-478)
\* =========================================================================

Chars == {" ", "\t", "a"}

RECURSIVE SeqsUpTo(_, _)
\* all sequences over S of length at most n
SeqsUpTo(S, n) ==
  IF n = 0 THEN {<<>>}
  ELSE LET shorter == SeqsUpTo(S, n - 1)
       IN  shorter \cup {Append(q, c) : q \in {x \in shorter : Len(x) = n - 1}, c \in S}

Queries == SeqsUpTo(Chars, MaxQueryLen)

\* variant: only the space character counts as white space
IsWhiteSpaceSpaceOnly(c) == c = " "
\* the characters String.prototype.trim removes
IsWhiteSpace(c) == c \in {" ", "\t", "\n", "\r"}

RECURSIVE TrimStart(_)
TrimStart(q) ==
  IF q # <<>> /\ IsWhiteSpace(Head(q)) THEN TrimStart(Tail(q)) ELSE q

RECURSIVE TrimEnd(_)
TrimEnd(q) ==
  IF q # <<>> /\ IsWhiteSpace(q[Len(q)]) THEN TrimEnd(SubSeq(q, 1, Len(q) - 1)) ELSE q

\* query.trim()
Trim(q) == TrimEnd(TrimStart(q))

\* sequences of distinct post ids: the rows a search_posts response may carry
RowSeqs == {r \in SeqsUpTo(1..MaxRows, MaxRows) : \A i, j \in 1..Len(r) : i # j => r[i] # r[j]}

\* the data field of a response: <<>> stands for null, <<rows>> for an array
SearchData == {<<>>} \cup {<<r>> : r \in RowSeqs}

\* the things the catch block may receive: an Error instance with its message,
\* or a plain error object
SearchErrors == {[isError |-> TRUE, message |-> "timeout"],
                 [isError |-> TRUE, message |-> ""],
                 [isError |-> FALSE, message |-> "denied"]}

RECURSIVE SortedIds(_)
SortedIds(r) ==
  IF r = <<>> THEN <<>>
  ELSE LET m == CHOOSE x \in {r[i] : i \in 1..Len(r)} : \A i \in 1..Len(r) : x <= r[i]
       IN  <<m>> \o SortedIds(SelectSeq(r, LAMBDA y : y # m))

\* variant: the hook re-sorts the rows by id
ResultsOnSuccessSorted(data) == IF data = <<>> THEN <<>> ELSE SortedIds(data[1])
\* setResults(data || [])
ResultsOnSuccess(data) == IF data = <<>> THEN <<>> ELSE data[1]

\* variant: the catch block keeps the displayed rows
ResultsOnFailureKept(prev) == prev
\* catch: setResults([])
ResultsOnFailure(prev) == <<>>

\* err instanceof Error ? err.message : 'Search failed'
ErrorMessage(err) == IF err.isError THEN err.message ELSE "Search failed"

NoEvent == [op |-> "none", query |-> <<>>, data |-> <<>>, req |-> 0, before |-> 0, loading |-> FALSE,
            prev |-> <<>>, clean |-> TRUE]

\* variant: the response of a request is dropped once a newer request was issued
SetResultsIfLatest(r, issued, new, old) == IF r = issued THEN new ELSE old
\* setResults(...) after the await: applied whatever was called in between
SetResults(r, issued, new, old) == new

\* variant: loading stays true while another request is in flight
LoadingWhileInFlight(inflight) == inflight # {}
\* finally { setLoading(false) }: whatever else is in flight
LoadingAfterResponse(inflight) == FALSE

SearchInit ==
  /\ results = <<>>
  /\ sLoading = FALSE
  /\ sError = Null
  /\ sInflight = {}
  /\ sIssued = 0
  /\ sDirty = {}
  /\ sLast = NoEvent

\* search(query) up to its first await
Search(q) ==
  /\ sLast' = [op |-> "search", query |-> q, data |-> <<>>, req |-> 0, before |-> sIssued, loading |-> sLoading,
               prev |-> results, clean |-> TRUE]
  /\ IF Trim(q) = <<>>
       THEN /\ results' = <<>>
            /\ UNCHANGED <<sLoading, sError, sInflight, sIssued, sDirty>>
       ELSE /\ sIssued < MaxSearches
            /\ sLoading' = TRUE
            /\ sError' = Null
            /\ sIssued' = sIssued + 1
            /\ sInflight' = sInflight \cup {sIssued + 1}
            /\ UNCHANGED <<results, sDirty>>

\* the response of request r carries no error: try block, then finally
SearchSuccess(r, data) ==
  /\ r \in sInflight
  /\ sInflight' = sInflight \ {r}
  /\ results' = SetResults(r, sIssued, ResultsOnSuccess(data), results)
  /\ sLoading' = LoadingAfterResponse(sInflight')
  /\ sDirty' = sDirty \ {r}
  /\ sLast' = [op |-> "success", query |-> <<>>, data |-> data, req |-> r, before |-> sIssued, loading |-> sLoading,
               prev |-> results, clean |-> r \notin sDirty]
  /\ UNCHANGED <<sError, sIssued>>

\* the response of request r carries an error (or the call throws): catch, finally
SearchFailure(r, err) ==
  /\ r \in sInflight
  /\ sInflight' = sInflight \ {r}
  /\ sError' = ErrorMessage(err)
  /\ results' = SetResults(r, sIssued, ResultsOnFailure(results), results)
  /\ sLoading' = LoadingAfterResponse(sInflight')
  /\ sDirty' = sInflight \ {r}
  /\ sLast' = [op |-> "failure", query |-> <<>>, data |-> <<>>, req |-> r, before |-> sIssued, loading |-> sLoading,
               prev |-> results, clean |-> r \notin sDirty]
  /\ UNCHANGED <<sIssued>>

\* clearResults()
ClearResults ==
  /\ results' = <<>>
  /\ sError' = Null
  /\ sLast' = [op |-> "clear", query |-> <<>>, data |-> <<>>, req |-> 0, before |-> sIssued, loading |-> sLoading,
               prev |-> results, clean |-> TRUE]
  /\ UNCHANGED <<sLoading, sInflight, sIssued, sDirty>>

\* =========================================================================
\*  Listing pipeline (pages/Posts.tsx 16-62)
\* =========================================================================
\* Strings that the pipeline inspects (tags, category names) are sequences of
\* characters.  A nullable column is <<>> for null and <<v>> for the value v.
\* A timestamp is the number of the day it denotes.

\* the posts the collections of the model are made of: the three posts of the
\* documented example (1, 2, 3) and one post for each other case of the filter
Catalog ==
  << [id |-> 1, status |-> "published", published_at |-> <<1>>, created_at |-> 1,
      featured |-> FALSE, view_count |-> <<5>>,
      tags |-> << <<"I","s","t","o","r","i","j","a">> >>],
     [id |-> 2, status |-> "draft", published_at |-> <<>>, created_at |-> 2,
      featured |-> FALSE, view_count |-> <<0>>, tags |-> <<>>],
     [id |-> 3, status |-> "published", published_at |-> <<3>>, created_at |-> 2,
      featured |-> TRUE, view_count |-> <<20>>,
      tags |-> << <<"K","u","l","t","u","r","a">> >>],
     [id |-> 4, status |-> "published", published_at |-> <<>>, created_at |-> 2,
      featured |-> TRUE, view_count |-> <<7>>,
      tags |-> << <<"k","u","l","t","u","r","a">> >>],
     [id |-> 5, status |-> "scheduled", published_at |-> <<4>>, created_at |-> 1,
      featured |-> TRUE, view_count |-> <<0>>,
      tags |-> << <<"K","u","l","t","u","r","a">> >>],
     [id |-> 6, status |-> "published", published_at |-> <<4>>, created_at |-> 3,
      featured |-> FALSE, view_count |-> <<>>,
      tags |-> << <<"p","u","t">>, <<"k","u","l","t">> >>],
     [id |-> 7, status |-> "published", published_at |-> <<1>>, created_at |-> 1,
      featured |-> TRUE, view_count |-> <<5>>,
      tags |-> << <<"P","r","i","r","o","d","a">> >>],
     [id |-> 8, status |-> "archived", published_at |-> <<2>>, created_at |-> 1,
      featured |-> TRUE, view_count |-> <<9>>,
      tags |-> << <<"I","s","t","o","r","i","j","a">> >>] >>

\* two of the categories the migration inserts
CategoryRows ==
  << [id |-> "c-kultura", name |-> <<"K","u","l","t","u","r","a">>],
     [id |-> "c-istorija", name |-> <<"I","s","t","o","r","i","j","a">>] >>

SortKeys == {"newest", "oldest", "popular"}

\* String.prototype.toLowerCase, on the letters the model uses
LowerChar(c) ==
  CASE c = "K" -> "k"
    [] c = "I" -> "i"
    [] c = "P" -> "p"
    [] OTHER -> c

ToLowerCase(str) == [i \in 1..Len(str) |-> LowerChar(str[i])]

\* hay.includes(needle)
Includes(hay, needle) ==
  \E i \in 0..(Len(hay) - Len(needle)) : SubSeq(hay, i + 1, i + Len(needle)) = needle

\* variant: only the tag is searched for the category name
TagMatchesOneWay(tag, name) == Includes(ToLowerCase(tag), ToLowerCase(name))
\* tag.toLowerCase().includes(name.toLowerCase()) || name.toLowerCase().includes(tag.toLowerCase())
TagMatches(tag, name) ==
  \/ Includes(ToLowerCase(tag), ToLowerCase(name))
  \/ Includes(ToLowerCase(name), ToLowerCase(tag))

\* post.tags.some(tag => ...)
TagsMatch(post, category) ==
  \E i \in 1..Len(post.tags) : TagMatches(post.tags[i], category.name)

\* variant: the filter tests the status alone
IsListableStatusOnly(post) == post.status = "published"
\* post.status === 'published' && post.published_at
IsListable(post) == post.status = "published" /\ post.published_at # <<>>

\* categories.find(c => c.id === selectedCategory): <<>> for undefined
FindCategory(cats, cid) ==
  LET hits == SelectSeq(cats, LAMBDA c : c.id = cid)
  IN  IF hits = <<>> THEN <<>> ELSE <<hits[1]>>

\* new Date(p.published_at || p.created_at).getTime()
SortTime(p) == IF p.published_at # <<>> THEN p.published_at[1] ELSE p.created_at

\* (p.view_count || 0)
ViewCountOrZero(p) == IF p.view_count = <<>> THEN 0 ELSE p.view_count[1]

\* variant: 'popular' compares a to b instead of b to a
CompareAscendingViews(a, b, key) ==
  CASE key = "newest" -> SortTime(b) - SortTime(a)
    [] key = "oldest" -> SortTime(a) - SortTime(b)
    [] key = "popular" -> ViewCountOrZero(a) - ViewCountOrZero(b)
    [] OTHER -> 0
\* variant: 'oldest' compares like 'newest'
CompareOldestAsNewest(a, b, key) ==
  CASE key = "newest" -> SortTime(b) - SortTime(a)
    [] key = "oldest" -> SortTime(b) - SortTime(a)
    [] key = "popular" -> ViewCountOrZero(b) - ViewCountOrZero(a)
    [] OTHER -> 0
\* the comparator of filtered.sort((a, b) => ...)
Compare(a, b, key) ==
  CASE key = "newest" -> SortTime(b) - SortTime(a)
    [] key = "oldest" -> SortTime(a) - SortTime(b)
    [] key = "popular" -> ViewCountOrZero(b) - ViewCountOrZero(a)
    [] OTHER -> 0

RECURSIVE InsertStable(_, _, _)
\* x goes behind every element that does not sort after it
InsertStable(sorted, x, key) ==
  IF sorted = <<>> THEN <<x>>
  ELSE IF Compare(Head(sorted), x, key) <= 0
         THEN <<Head(sorted)>> \o InsertStable(Tail(sorted), x, key)
         ELSE <<x>> \o sorted

RECURSIVE SortStable(_, _)
\* Array.prototype.sort with the comparator: a stable sort
SortStable(list, key) ==
  IF list = <<>> THEN <<>>
  ELSE InsertStable(SortStable(SubSeq(list, 1, Len(list) - 1), key), list[Len(list)], key)

\* variant: a sort that does not keep the order of equal elements
ArraySortUnstable(list, key) ==
  SortStable([i \in 1..Len(list) |-> list[Len(list) + 1 - i]], key)
\* filtered.sort(comparator)
ArraySort(list, key) == SortStable(list, key)

\* variant: the featured filter keeps every post
IsFeaturedAlways(p) == TRUE
\* filtered.filter(post => post.featured)
IsFeatured(p) == p.featured

\* variant: an id that resolves to no category keeps no post
FilterByCategoryOrNone(list, cid, category) ==
  IF cid = "all" THEN list
  ELSE IF category = <<>> THEN <<>>
  ELSE SelectSeq(list, LAMBDA p : TagsMatch(p, category[1]))
\* if (selectedCategory !== 'all') { ...; if (category) { filtered = ... } }
FilterByCategory(list, cid, category) ==
  IF cid # "all" /\ category # <<>>
    THEN SelectSeq(list, LAMBDA p : TagsMatch(p, category[1]))
    ELSE list

\* the body of the useMemo
DeriveList(ps, cats, cid, featuredOnly, key) ==
  LET eligible == SelectSeq(ps, IsListable)
      category == FindCategory(cats, cid)
      inCategory == FilterByCategory(eligible, cid, category)
      featured == IF featuredOnly
                    THEN SelectSeq(inCategory, IsFeatured)
                    ELSE inCategory
  IN  ArraySort(featured, key)

\* fetchPosts: .order('published_at', { ascending: false, nullsFirst: false })
FetchOrdered(ps) ==
  \A i, j \in 1..Len(ps) :
     i < j => \/ ps[j].published_at = <<>>
              \/ /\ ps[i].published_at # <<>>
                 /\ ps[i].published_at[1] >= ps[j].published_at[1]

\* the collections fetchPosts can deliver: distinct rows in the fetch order
Collections ==
  LET idSeqs == {x \in SeqsUpTo(1..Len(Catalog), MaxPosts) :
                   \A i, j \in 1..Len(x) : i # j => x[i] # x[j]}
      rows(ids) == [i \in 1..Len(ids) |-> Catalog[ids[i]]]
  IN  {ps \in {rows(ids) : ids \in idSeqs} : FetchOrdered(ps)}

\* no render has happened before the first one
NoRender == [list |-> <<>>, cid |-> "none", featuredOnly |-> FALSE, key |-> "none"]

CategoryChoices == {"all"} \cup {CategoryRows[i].id : i \in 1..Len(CategoryRows)}

ListIdle ==
  /\ lposts = <<>>
  /\ categories = <<>>
  /\ selectedCategory = "all"
  /\ sortBy = "newest"
  /\ showFeaturedOnly = FALSE
  /\ now = 1
  /\ filteredAndSortedPosts = <<>>
  /\ lastRender = NoRender

\* the Posts page once its hooks have loaded, with the default filter state
ListInit ==
  /\ lposts \in Collections
  /\ categories = CategoryRows
  /\ selectedCategory = "all"
  /\ sortBy = "newest"
  /\ showFeaturedOnly = FALSE
  /\ now \in 1..MaxNow
  /\ filteredAndSortedPosts = DeriveList(lposts, categories, "all", FALSE, "newest")
  /\ lastRender = NoRender

\* a render of the Posts page with the new filter state
Render(cid, featuredOnly, key) ==
  /\ selectedCategory' = cid
  /\ showFeaturedOnly' = featuredOnly
  /\ sortBy' = key
  /\ filteredAndSortedPosts' = DeriveList(lposts, categories, cid, featuredOnly, key)
  /\ lastRender' = [list |-> filteredAndSortedPosts, cid |-> selectedCategory,
                    featuredOnly |-> showFeaturedOnly, key |-> sortBy]
  /\ UNCHANGED <<lposts, categories, now>>

\* the options of the category select: 'all' and the loaded categories
Options(cats) == {"all"} \cup {cats[i].id : i \in 1..Len(cats)}

\* onChange of the category select
SelectCategory(cid) ==
  /\ cid \in Options(categories)
  /\ Render(cid, showFeaturedOnly, sortBy)

\* the collections a fetchCategories response may carry: all categories, or
\* what is left after one was deleted in the store
CategoryCollections ==
  {CategoryRows} \cup
  {SelectSeq(CategoryRows, LAMBDA c : c.id # gone) :
     gone \in {CategoryRows[i].id : i \in 1..Len(CategoryRows)}}

\* a fetchCategories response replaces the collection (setCategories) and the
\* page renders with the filter state it has
CategoriesLoaded(cats) ==
  /\ cats # categories
  /\ categories' = cats
  /\ filteredAndSortedPosts' =
        DeriveList(lposts, cats, selectedCategory, showFeaturedOnly, sortBy)
  /\ lastRender' = [list |-> filteredAndSortedPosts, cid |-> selectedCategory,
                    featuredOnly |-> showFeaturedOnly, key |-> sortBy]
  /\ UNCHANGED <<lposts, selectedCategory, showFeaturedOnly, sortBy, now>>

\* onChange of the featured checkbox
SetShowFeaturedOnly(b) == Render(selectedCategory, b, sortBy)

\* onChange of the sort select
SetSortBy(key) == Render(selectedCategory, showFeaturedOnly, key)

\* the reset button of the empty state
ResetFilters == Render("all", FALSE, "newest")

\* a day passes; nothing the memo depends on changes
AdvanceClock ==
  /\ now < MaxNow
  /\ now' = now + 1
  /\ UNCHANGED <<lposts, categories, selectedCategory, sortBy, showFeaturedOnly,
                 filteredAndSortedPosts, lastRender>>


\* =========================================================================
\*  increment_post_view_count in the store (migration, lines 298-316)
\* =========================================================================
\* Each call runs as one transaction at the store's default isolation level
\* (read committed): its INSERT and UPDATE become visible together at commit;
\* the UPDATE takes the lock of the post's row, waits while another
\* transaction holds it, and computes view_count + 1 from the latest
\* committed version of the row.

Calls == 1..NumCalls
PostIds == 1..NumPosts

InProgress(c) == txPc[c] \in {"inserted", "updated"}

\* variant: the UPDATE does not wait for the row lock
RowAvailableUnlocked(c) == TRUE
\* UPDATE posts ... WHERE id = post_id_param may proceed: no other transaction
\* holds the row
RowAvailable(c) == rowLock[txPost[c]] = 0

StoreIdle ==
  /\ txPc = [c \in Calls |-> "idle"]
  /\ txPost = [c \in Calls |-> 1]
  /\ txNew = [c \in Calls |-> 0]
  /\ rowLock = [p \in PostIds |-> 0]
  /\ dbViews = [p \in PostIds |-> 0]
  /\ dbViewRows = [p \in PostIds |-> 0]
  /\ views0 = [p \in PostIds |-> 0]
  /\ txOverlap = [p \in PostIds |-> FALSE]

StoreInit ==
  /\ txPc = [c \in Calls |-> "idle"]
  /\ txPost = [c \in Calls |-> 1]
  /\ txNew = [c \in Calls |-> 0]
  /\ rowLock = [p \in PostIds |-> 0]
  /\ dbViews \in [PostIds -> 0..MaxInitViews]
  /\ dbViewRows = [p \in PostIds |-> 0]
  /\ views0 = dbViews
  /\ txOverlap = [p \in PostIds |-> FALSE]

\* the call starts and runs INSERT INTO post_views (...)
InsertView(c, p) ==
  /\ txPc[c] = "idle"
  /\ txPc' = [txPc EXCEPT ![c] = "inserted"]
  /\ txPost' = [txPost EXCEPT ![c] = p]
  /\ txOverlap' = [txOverlap EXCEPT ![p] = @ \/ \E d \in Calls \ {c} : InProgress(d) /\ txPost[d] = p]
  /\ UNCHANGED <<txNew, rowLock, dbViews, dbViewRows, views0>>

\* UPDATE posts SET view_count = view_count + 1 WHERE id = post_id_param
UpdateViewCount(c) ==
  /\ txPc[c] = "inserted"
  /\ RowAvailable(c)
  /\ txPc' = [txPc EXCEPT ![c] = "updated"]
  /\ rowLock' = [rowLock EXCEPT ![txPost[c]] = c]
  /\ txNew' = [txNew EXCEPT ![c] = dbViews[txPost[c]] + 1]
  /\ UNCHANGED <<txPost, dbViews, dbViewRows, views0, txOverlap>>

\* the function returns and the transaction commits
Commit(c) ==
  /\ txPc[c] = "updated"
  /\ txPc' = [txPc EXCEPT ![c] = "committed"]
  /\ dbViews' = [dbViews EXCEPT ![txPost[c]] = txNew[c]]
  /\ dbViewRows' = [dbViewRows EXCEPT ![txPost[c]] = @ + 1]
  /\ rowLock' = [rowLock EXCEPT ![txPost[c]] = IF @ = c THEN 0 ELSE @]
  /\ UNCHANGED <<txPost, txNew, views0, txOverlap>>

\* the transaction is rolled back (connection lost, statement cancelled)
Abort(c) ==
  /\ InProgress(c)
  /\ txPc' = [txPc EXCEPT ![c] = "aborted"]
  /\ rowLock' = [rowLock EXCEPT ![txPost[c]] = IF @ = c THEN 0 ELSE @]
  /\ UNCHANGED <<txPost, txNew, dbViews, dbViewRows, views0, txOverlap>>


\* =========================================================================
\*  usePosts mutations and the posts table (PostCard.tsx 325-370)
\* =========================================================================

StoredIds == 1..MaxStored

\* view_count values a caller may pass to updatePost
ViewCountValues == (0 - 1)..MaxViewCount

\* the updates argument of updatePost, reduced to its view_count: absent or a number
Updates == {<<>>} \cup {<<v>> : v \in ViewCountValues}

NoRows == [id \in StoredIds |-> <<>>]

NoMutation == [op |-> "none", ok |-> TRUE, threw |-> FALSE, refetched |-> FALSE]

\* the store is empty and the mount effect's fetchPosts is in flight
MutInit ==
  /\ tblPosts = NoRows
  /\ hookPosts = NoRows
  /\ hookFetches = 1
  /\ tblBefore = NoRows
  /\ hookLoading = TRUE
  /\ hookError = Null
  /\ lastMut = NoMutation
  /\ lastFetch = "none"
  /\ fetchFailedOnce = FALSE

\* the id the store gives the next inserted row
NextId == CHOOSE id \in StoredIds :
            tblPosts[id] = <<>> /\ \A j \in StoredIds : j < id => tblPosts[j] # <<>>

\* the row written by insert([{ ...postData, view_count: 0 }])
InsertedPost == <<0>>

\* the row left by update(updates).eq('id', id)
UpdatedPost(row, updates) == IF updates = <<>> THEN row ELSE updates

\* the row left by UPDATE posts SET view_count = view_count + 1
IncrementedPost(row) == <<row[1] + 1>>

\* variant: a mutation that does not call fetchPosts
RefetchesNever(done) == FALSE
\* if (error) throw error; await fetchPosts(): the refetch is reached iff the
\* write returned no error
Refetches(done) == done

\* variant: a failed mutation puts a message into the error slot
ErrorAfterMutationCaptured(done, prev) == IF done THEN prev ELSE "error"
\* the mutations have no catch and no setError: the slot keeps its value
ErrorAfterMutation(done, prev) == prev

\* variant: a successful fetch resets the error slot
ErrorAfterFetchCleared(ok, prev) == IF ok THEN Null ELSE "error"
\* fetchPosts: setError only in the catch block, nothing resets it
ErrorAfterFetch(ok, prev) == IF ok THEN prev ELSE "error"

\* the part every mutation of usePosts shares after its store request: throw
\* on error, else await fetchPosts(), whose first statement is setLoading(true)
AfterWrite(op, done) ==
  /\ hookFetches' = IF Refetches(done) THEN hookFetches + 1 ELSE hookFetches
  /\ hookLoading' = IF Refetches(done) THEN TRUE ELSE hookLoading
  /\ hookError' = ErrorAfterMutation(done, hookError)
  /\ lastMut' = [op |-> op, ok |-> done, threw |-> ~done, refetched |-> Refetches(done)]
  /\ tblBefore' = tblPosts
  /\ UNCHANGED <<hookPosts, lastFetch, fetchFailedOnce>>

\* usePosts.addPost: ok = the insert returned no error
AddPost(ok) ==
  /\ \E id \in StoredIds : tblPosts[id] = <<>>
  /\ hookFetches < MaxFetches
  /\ tblPosts' = IF ok THEN [tblPosts EXCEPT ![NextId] = InsertedPost] ELSE tblPosts
  /\ AfterWrite("addPost", ok)

\* usePosts.updatePost: a missing row makes .single() fail
UpdatePost(id, updates, ok) ==
  /\ hookFetches < MaxFetches
  /\ LET done == ok /\ tblPosts[id] # <<>>
     IN  /\ tblPosts' = IF done
                          THEN [tblPosts EXCEPT ![id] = UpdatedPost(tblPosts[id], updates)]
                          ELSE tblPosts
         /\ AfterWrite("updatePost", done)

\* usePosts.deletePost: deleting no row is not an error
DeletePost(id, ok) ==
  /\ hookFetches < MaxFetches
  /\ tblPosts' = IF ok THEN [tblPosts EXCEPT ![id] = <<>>] ELSE tblPosts
  /\ AfterWrite("deletePost", ok)

\* usePosts.incrementViewCount: the rpc runs increment_post_view_count as one
\* transaction; post_views.post_id references posts(id), so a missing row fails
IncrementViewCount(id, ok) ==
  /\ hookFetches < MaxFetches
  /\ tblPosts[id] # <<>> => tblPosts[id][1] < MaxViewCount
  /\ LET done == ok /\ tblPosts[id] # <<>>
     IN  /\ tblPosts' = IF done
                          THEN [tblPosts EXCEPT ![id] = IncrementedPost(tblPosts[id])]
                          ELSE tblPosts
         /\ AfterWrite("incrementViewCount", done)

\* a fetchPosts response: setPosts(data) or setError, then setLoading(false)
FetchPostsDone(ok) ==
  /\ hookFetches > 0
  /\ hookFetches' = hookFetches - 1
  /\ hookPosts' = IF ok THEN tblPosts ELSE hookPosts
  /\ hookError' = ErrorAfterFetch(ok, hookError)
  /\ hookLoading' = FALSE
  /\ lastFetch' = IF ok THEN "ok" ELSE "failed"
  /\ fetchFailedOnce' = (fetchFailedOnce \/ ~ok)
  /\ UNCHANGED <<tblPosts, tblBefore, lastMut>>

\* =========================================================================
\*  useComments and the comments table (PostCard.tsx 481-529, part_000 97-107, 220-229)
\* =========================================================================

CommentStatus == {"pending", "approved", "rejected"}

\* the status a caller of addComment smuggles into commentData: none or one
PassedStatus == {<<>>} \cup {<<st>> : st \in CommentStatus}

Roles == {"anon", "authenticated"}

\* variant: the caller's status survives the spread
InsertedCommentAsPassed(id, p, passed) ==
  [id |-> id, post_id |-> p, status |-> IF passed = <<>> THEN "pending" ELSE passed[1]]
\* the row written by insert([{ ...commentData, status: 'pending' }])
InsertedComment(id, p, passed) == [id |-> id, post_id |-> p, status |-> "pending"]

\* the SELECT policies of the comments table
CanSelect(role, row) == role = "authenticated" \/ row.status = "approved"

\* variant: the query does not filter on status
QueryMatchesAnyStatus(row, p) == row.post_id = p
\* .eq('post_id', postId).eq('status', 'approved')
QueryMatches(row, p) == row.post_id = p /\ row.status = "approved"

\* the rows a fetchComments request of the hook gets, in created_at order
SelectComments(role, p) ==
  SelectSeq(tblComments, LAMBDA row : CanSelect(role, row) /\ QueryMatches(row, p))

CommentsIdle ==
  /\ tblComments = <<>>
  /\ cPostId = <<>>
  /\ cRole = "anon"
  /\ comments = <<>>
  /\ cLoading = TRUE
  /\ cError = Null
  /\ cInflight = {}
  /\ cCreatedAs = <<>>
  /\ cEverApproved = {}
  /\ cLastMut = NoMutation

\* the hook after its first render: with a postId the mount effect's
\* fetchComments is in flight (the table is empty: it will return no rows)
CommentsInit ==
  /\ tblComments = <<>>
  /\ cPostId \in {<<>>} \cup {<<p>> : p \in PostIds}
  /\ cRole \in Roles
  /\ comments = <<>>
  /\ cLoading = TRUE
  /\ cError = Null
  /\ cInflight = IF cPostId = <<>> THEN {} ELSE {[ok |-> TRUE, data |-> <<>>]}
  /\ cCreatedAs = <<>>
  /\ cEverApproved = {}
  /\ cLastMut = NoMutation

\* useComments.addComment called by a client of the given role (of this hook
\* or of any other): insert(...).select().single() returns the new row, which
\* the SELECT policy must let the caller read -- else the insert fails.
\* The posts that comments refer to exist.
AddComment(p, passed, role) ==
  /\ Len(tblComments) < MaxComments
  /\ LET row == InsertedComment(Len(tblComments) + 1, p, passed)
     IN  IF CanSelect(role, row)
           THEN /\ tblComments' = Append(tblComments, row)
                /\ cCreatedAs' = Append(cCreatedAs, row.status)
                /\ cEverApproved' = IF row.status = "approved"
                                      THEN cEverApproved \cup {row.id}
                                      ELSE cEverApproved
           ELSE UNCHANGED <<tblComments, cCreatedAs, cEverApproved>>
  /\ UNCHANGED <<cPostId, cRole, comments, cLoading, cError, cInflight>>
  /\ cLastMut' = [op |-> "addComment", ok |-> Len(tblComments') > Len(tblComments),
                  threw |-> Len(tblComments') = Len(tblComments),
                  refetched |-> cInflight' # cInflight]

\* useComments.fetchComments (refetch): returns at once without a postId
FetchComments ==
  /\ cPostId # <<>>
  /\ Cardinality(cInflight) < MaxFetches
  /\ cLoading' = TRUE
  /\ \E ok \in BOOLEAN :
        cInflight' = cInflight \cup
           {[ok |-> ok, data |-> IF ok THEN SelectComments(cRole, cPostId[1]) ELSE <<>>]}
  /\ UNCHANGED <<tblComments, cPostId, cRole, comments, cError, cCreatedAs, cEverApproved,
                 cLastMut>>

\* a fetchComments response arrives (in any order)
FetchCommentsDone(resp) ==
  /\ cInflight' = cInflight \ {resp}
  /\ comments' = IF resp.ok THEN resp.data ELSE comments
  /\ cError' = IF resp.ok THEN cError ELSE "error"
  /\ cLoading' = FALSE
  /\ UNCHANGED <<tblComments, cPostId, cRole, cCreatedAs, cEverApproved, cLastMut>>

\* an authenticated user changes a comment's status
Moderate(i, st) ==
  /\ i <= Len(tblComments)
  /\ tblComments[i].status # st
  /\ tblComments' = [tblComments EXCEPT ![i].status = st]
  /\ cEverApproved' = IF st = "approved" THEN cEverApproved \cup {i} ELSE cEverApproved
  /\ UNCHANGED <<cPostId, cRole, comments, cLoading, cError, cInflight, cCreatedAs,
                 cLastMut>>

\* =========================================================================
\*  useNewsletter and the newsletter_subscriptions table
\*  (PostCard.tsx 532-585, part_000 110-117, 232-237)
\* =========================================================================

Emails == {"ana@example.org", "bob@example.org"}

NoNewsEvent ==
  [op |-> "none", email |-> "", outcome |-> "ok", before |-> "none",
   errorBefore |-> Null, threw |-> FALSE]

NewsIdle ==
  /\ tblNews = [e \in Emails |-> "none"]
  /\ nRole = "anon"
  /\ nLoading = FALSE
  /\ nError = Null
  /\ nInflight = {}
  /\ nLast = NoNewsEvent

NewsInit ==
  /\ tblNews = [e \in Emails |-> "none"]
  /\ nRole \in Roles
  /\ nLoading = FALSE
  /\ nError = Null
  /\ nInflight = {}
  /\ nLast = NoNewsEvent

\* the policies of newsletter_subscriptions: anyone may insert, only
\* authenticated users may select and update
CanReadNews(role) == role = "authenticated"

\* how insert([{ email, name }]).select().single() ends: the UNIQUE constraint
\* on email rejects a second row; the returned row must pass a SELECT policy
InsertOutcome(before, role, netOk) ==
  IF ~netOk THEN "network"
  ELSE IF before # "none" THEN "unique"
  ELSE IF ~CanReadNews(role) THEN "rls"
  ELSE "ok"

\* variant: subscribing again reactivates an existing row
InsertedSubscriptionUpsert(before, outcome) ==
  IF outcome \in {"ok", "unique"} THEN "active" ELSE before
\* the row of the address after the insert: status DEFAULT 'active'
InsertedSubscription(before, outcome) == IF outcome = "ok" THEN "active" ELSE before

\* how update({ status: 'unsubscribed', ... }).eq('email', email) ends:
\* matching no row is not an error
UpdateOutcome(netOk) == IF netOk THEN "ok" ELSE "network"

\* the row of the address after the update
UnsubscribedRow(before, role, outcome) ==
  IF outcome = "ok" /\ before # "none" /\ CanReadNews(role) THEN "unsubscribed" ELSE before

\* both operations up to their await: setLoading(true); setError(null)
StartNewsRequest(op, e) ==
  /\ [op |-> op, email |-> e] \notin nInflight
  /\ Cardinality(nInflight) < MaxFetches
  /\ nInflight' = nInflight \cup {[op |-> op, email |-> e]}
  /\ nLoading' = TRUE
  /\ nError' = Null
  /\ nLast' = [op |-> "call", email |-> e, outcome |-> "ok", before |-> tblNews[e],
               errorBefore |-> nError, threw |-> FALSE]
  /\ UNCHANGED <<tblNews, nRole>>

Subscribe(e) == StartNewsRequest("subscribe", e)

Unsubscribe(e) == StartNewsRequest("unsubscribe", e)

\* after the await: throw on error; catch { setError; throw err }; finally
EndNewsRequest(req, outcome) ==
  /\ nInflight' = nInflight \ {req}
  /\ nError' = IF outcome = "ok" THEN nError ELSE outcome
  /\ nLoading' = FALSE
  /\ nLast' = [op |-> req.op, email |-> req.email, outcome |-> outcome,
               before |-> tblNews[req.email], errorBefore |-> nError,
               threw |-> outcome # "ok"]
  /\ UNCHANGED nRole

\* the store runs the insert and subscribe resumes
SubscribeDone(req, netOk) ==
  /\ req.op = "subscribe"
  /\ LET outcome == InsertOutcome(tblNews[req.email], nRole, netOk)
     IN  /\ tblNews' = [tblNews EXCEPT
                          ![req.email] = InsertedSubscription(tblNews[req.email], outcome)]
         /\ EndNewsRequest(req, outcome)

\* the store runs the update and unsubscribe resumes
UnsubscribeDone(req, netOk) ==
  /\ req.op = "unsubscribe"
  /\ LET outcome == UpdateOutcome(netOk)
     IN  /\ tblNews' = [tblNews EXCEPT
                          ![req.email] = UnsubscribedRow(tblNews[req.email], nRole, outcome)]
         /\ EndNewsRequest(req, outcome)

\* =========================================================================
\*  Specifications
\* =========================================================================

\* the variables each specification leaves alone
notView == <<searchVars, listVars, storeVars, mutVars, commentVars, newsVars>>
notSearch == <<viewVars, listVars, storeVars, mutVars, commentVars, newsVars>>
notList == <<viewVars, searchVars, storeVars, mutVars, commentVars, newsVars>>
notStore == <<viewVars, searchVars, listVars, mutVars, commentVars, newsVars>>
notMut == <<viewVars, searchVars, listVars, storeVars, commentVars, newsVars>>
notComment == <<viewVars, searchVars, listVars, storeVars, mutVars, newsVars>>
notNews == <<viewVars, searchVars, listVars, storeVars, mutVars, commentVars>>

Init == ViewInit /\ SearchInit /\ ListIdle /\ StoreIdle /\ MutInit /\ CommentsIdle /\ NewsIdle

\* the view-recording protocol
Next ==
  \/ (\E sl \in Slugs : Mount(sl)) /\ UNCHANGED notView
  \/ Unmount /\ UNCHANGED notView
  \/ \E m \in Mounts, ok \in BOOLEAN : InitFetchDone(m, ok) /\ UNCHANGED notView
  \/ Rerender /\ UNCHANGED notView
  \/ (\E sl \in Slugs : SlugChange(sl)) /\ UNCHANGED notView
  \/ Tick /\ UNCHANGED notView
  \/ TimerFire /\ UNCHANGED notView
  \/ \E m \in Mounts, sl \in Slugs : RpcSuccess(m, sl) /\ UNCHANGED notView
  \/ \E m \in Mounts, sl \in Slugs : RpcFail(m, sl) /\ UNCHANGED notView
  \/ \E m \in Mounts, ok \in BOOLEAN : RefetchDone(m, ok) /\ UNCHANGED notView

Spec == Init /\ [][Next]_vars

\* the search hook
NextSearch ==
  \/ \E q \in Queries : Search(q) /\ UNCHANGED notSearch
  \/ \E r \in 1..MaxSearches, data \in SearchData : SearchSuccess(r, data) /\ UNCHANGED notSearch
  \/ \E r \in 1..MaxSearches, err \in SearchErrors : SearchFailure(r, err) /\ UNCHANGED notSearch
  \/ ClearResults /\ UNCHANGED notSearch

SpecSearch == Init /\ [][NextSearch]_vars

\* the listing page
InitList == ViewInit /\ SearchInit /\ ListInit /\ StoreIdle /\ MutInit /\ CommentsIdle /\ NewsIdle

NextList ==
  \/ \E cid \in CategoryChoices : SelectCategory(cid) /\ UNCHANGED notList
  \/ \E b \in BOOLEAN : SetShowFeaturedOnly(b) /\ UNCHANGED notList
  \/ \E key \in SortKeys : SetSortBy(key) /\ UNCHANGED notList
  \/ ResetFilters /\ UNCHANGED notList
  \/ \E cats \in CategoryCollections : CategoriesLoaded(cats) /\ UNCHANGED notList
  \/ AdvanceClock /\ UNCHANGED notList

SpecList == InitList /\ [][NextList]_vars

\* concurrent calls of the increment procedure
InitStore == ViewInit /\ SearchInit /\ ListIdle /\ StoreInit /\ MutInit /\ CommentsIdle /\ NewsIdle

NextStore ==
  \/ \E c \in Calls, p \in PostIds : InsertView(c, p) /\ UNCHANGED notStore
  \/ \E c \in Calls : UpdateViewCount(c) /\ UNCHANGED notStore
  \/ \E c \in Calls : Commit(c) /\ UNCHANGED notStore
  \/ \E c \in Calls : Abort(c) /\ UNCHANGED notStore

SpecStore == InitStore /\ [][NextStore]_vars

\* ---- the usePosts mutations against the posts table
NextPosts ==
  \/ (\E ok \in BOOLEAN : AddPost(ok)) /\ UNCHANGED notMut
  \/ (\E id \in StoredIds, updates \in Updates, ok \in BOOLEAN :
        UpdatePost(id, updates, ok)) /\ UNCHANGED notMut
  \/ (\E id \in StoredIds, ok \in BOOLEAN : DeletePost(id, ok)) /\ UNCHANGED notMut
  \/ (\E id \in StoredIds, ok \in BOOLEAN : IncrementViewCount(id, ok)) /\ UNCHANGED notMut
  \/ (\E ok \in BOOLEAN : FetchPostsDone(ok)) /\ UNCHANGED notMut

SpecPosts == Init /\ [][NextPosts]_vars

\* ---- useComments against the comments table
InitComments == ViewInit /\ SearchInit /\ ListIdle /\ StoreIdle /\ MutInit /\ CommentsInit /\ NewsIdle

NextComments ==
  \/ (\E p \in PostIds, st \in PassedStatus, role \in Roles :
        AddComment(p, st, role)) /\ UNCHANGED notComment
  \/ FetchComments /\ UNCHANGED notComment
  \/ (\E resp \in cInflight : FetchCommentsDone(resp)) /\ UNCHANGED notComment
  \/ (\E i \in 1..MaxComments, st \in CommentStatus : Moderate(i, st)) /\ UNCHANGED notComment

SpecComments == InitComments /\ [][NextComments]_vars

\* ---- useNewsletter against the newsletter_subscriptions table
InitNews ==
  ViewInit /\ SearchInit /\ ListIdle /\ StoreIdle /\ MutInit /\ CommentsIdle /\ NewsInit

NextNews ==
  \/ (\E e \in Emails : Subscribe(e)) /\ UNCHANGED notNews
  \/ (\E e \in Emails : Unsubscribe(e)) /\ UNCHANGED notNews
  \/ (\E req \in nInflight, netOk \in BOOLEAN : SubscribeDone(req, netOk)) /\ UNCHANGED notNews
  \/ (\E req \in nInflight, netOk \in BOOLEAN : UnsubscribeDone(req, netOk)) /\ UNCHANGED notNews

SpecNews == InitNews /\ [][NextNews]_vars

\* =========================================================================
\*  Claims about the view-recording protocol (checked under Spec)
\* =========================================================================

\* C1: during one mount's lifetime at most one increment_post_view_count
\* request is issued, whatever the interleaving of renders, timer firings,
\* responses and refetch completions.
C1_AtMostOneRequestPerMount == \A m \in Mounts : reqCount[m] <= 1

\* C2: a view unmounted before its pending timer fired has the timer cancelled
\* and never issues an increment request for that mount; in particular a view
\* unmounted within 1.9 s of mounting has issued none.
C2_UnmountCancelsTimer ==
  ~mounted =>
     /\ timer = NoTimer
     /\ reqAtUnmount = 0 => reqCount[mountId] = 0
     /\ age <= 1900 => reqCount[mountId] = 0

\* C2 witness: the post had loaded (so the timer was pending), the view was
\* torn down 1.9 s after mounting and no request was issued.
C2_Witness ==
  /\ ~mounted
  /\ age = 1900
  /\ posts # <<>>
  /\ ~viewRecorded
  /\ timer = NoTimer
  /\ reqCount[mountId] = 0

\* C3: a view that stayed mounted until its increment succeeded ends recorded
\* having issued exactly one increment request.
C3_RecordedAfterExactlyOneRequest == viewRecorded => reqCount[mountId] = 1

\* C18: after an increment request of a mount has failed, the failure is
\* logged and that mount issues no further increment request, whatever
\* re-renders follow.
C18_NoRequestAfterFailure ==
  \A m \in Mounts :
     reqAtFail[m] # <<>> => (logged > 0 /\ reqCount[m] = reqAtFail[m][1])

\* C19: once viewRecorded is true the instance has no timer pending and
\* issues no further increment request, whatever renders follow: a refetch
\* replacing the post object, or the slug changing to another post.
C19_RecordedNeverArmsAgain ==
  viewRecorded =>
     /\ timer = NoTimer
     /\ recordedAt # <<>>
     /\ reqCount[mountId] = recordedAt[1].req

\* C19 witness: the view of post a was recorded after one request, then the
\* slug changed to post b, whose rows are loaded; nothing is armed or sent.
C19_Witness ==
  /\ mounted
  /\ viewRecorded
  /\ recordedAt = <<[slug |-> "a", req |-> 1]>>
  /\ slug = "b"
  /\ posts # <<>>
  /\ ~postsLoading
  /\ age = TimerDelay
  /\ timer = NoTimer
  /\ reqCount[mountId] = 1
  /\ storeViews["b"] = 0

PendingTimers == orphanTimers + (IF timer # NoTimer THEN 1 ELSE 0)

\* C23: a mounted PostDetail instance has at most one pending view-recording
\* timer, because every run of the effect first clears the timer armed by the
\* run before; after unmounting none is pending.  A pending timer can coexist
\* with an increment request in flight.
C23_AtMostOnePendingTimer ==
  /\ PendingTimers <= 1
  /\ ~mounted => PendingTimers = 0

\* C23 witness: the mount's increment request is in flight and a timer armed
\* by a later render is pending, after an earlier pending timer was replaced.
C23_Witness ==
  /\ mounted
  /\ timer > 0
  /\ timer < TimerDelay
  /\ rpcPending[mountId][slug] = 1
  /\ reqCount[mountId] = 1
  /\ PendingTimers = 1

\* =========================================================================
\*  Claims about useSearch (checked under SpecSearch)
\* =========================================================================

\* the query of the last search call consists of whitespace only (or is empty)
LastQueryBlank == \A i \in 1..Len(sLast.query) : sLast.query[i] \in {" ", "\t"}

\* C6: search with an empty or whitespace-only query leaves the result list
\* empty and issues no request, whatever the hook's state before the call.
C6_BlankQueryClearsWithoutRequest ==
  (sLast.op = "search" /\ LastQueryBlank) =>
     (results = <<>> /\ sIssued = sLast.before)

\* C6 witness: a whitespace-only query arrived while results were shown and a
\* request was in flight.
C6_Witness ==
  /\ sLast.op = "search"
  /\ sLast.query = <<" ", "\t">>
  /\ sLast.prev # <<>>
  /\ sInflight # {}
  /\ results = <<>>
  /\ sIssued = sLast.before

\* what a non-blank search call does up to its request
NonBlankCallIssuesOneRequest ==
  (sLast.op = "search" /\ ~LastQueryBlank) =>
     (sLoading /\ sIssued = sLast.before + 1 /\ sIssued \in sInflight)

\* a successful response replaces results by the returned rows, in their order
SuccessReplacesResults ==
  sLast.op = "success" =>
     /\ sLast.data # <<>> => results = sLast.data[1]
     /\ sLast.data = <<>> => results = <<>>
     /\ ~sLoading

\* C7 as claimed: a non-blank search sets loading and issues exactly one
\* request; its successful response replaces results by the returned rows in
\* the order returned and leaves loading = false and error = null.
C7_SearchSuccessEndsWithoutError ==
  /\ NonBlankCallIssuesOneRequest
  /\ SuccessReplacesResults
  /\ sLast.op = "success" => sError = Null

\* C7 amended: as above, but error = null is only guaranteed when no other
\* search failed between the call and its response.
C7_SearchSuccessReplacesResults ==
  /\ NonBlankCallIssuesOneRequest
  /\ SuccessReplacesResults
  /\ (sLast.op = "success" /\ sLast.clean) => sError = Null

\* C7 witness: a response carrying rows 2, 1 replaced other results, unsorted.
C7_Witness ==
  /\ sLast.op = "success"
  /\ sLast.data = << <<2, 1>> >>
  /\ sLast.prev = <<1>>
  /\ sLast.clean
  /\ results = <<2, 1>>
  /\ ~sLoading
  /\ sError = Null

\* C8: a failed search ends with no results, an error message and
\* loading = false, and issues no further request.
C8_SearchFailureClears ==
  sLast.op = "failure" =>
     (results = <<>> /\ sError # Null /\ ~sLoading /\ sIssued = sLast.before)

\* C8 witness: a failure with a plain error object wiped displayed results.
C8_Witness ==
  /\ sLast.op = "failure"
  /\ sLast.prev # <<>>
  /\ results = <<>>
  /\ sError = "Search failed"
  /\ ~sLoading


\* what the event that completed last leaves in the result list
OutcomeOfLastEvent ==
  CASE sLast.op = "success" -> IF sLast.data = <<>> THEN <<>> ELSE sLast.data[1]
    [] sLast.op = "failure" -> <<>>
    [] sLast.op = "clear" -> <<>>
    [] sLast.op = "search" -> IF LastQueryBlank THEN <<>> ELSE sLast.prev
    [] OTHER -> <<>>

\* C17: the hook does not cancel or order its requests: after any interleaving
\* of search, clearResults and responses the result list is the outcome of the
\* event that completed last, also when that is the response of an older
\* request than the one issued last.
C17_LastCompletedEventWins == results = OutcomeOfLastEvent

\* C17 witness: the second request was answered first, then the response of
\* the first request replaced its rows.
C17_Witness ==
  /\ sIssued = 2
  /\ sInflight = {}
  /\ sLast.op = "success"
  /\ sLast.req = 1
  /\ sLast.prev = <<2>>
  /\ results = <<1>>

\* C24: the loading flag does not count requests: a response sets loading to
\* false even while another request is in flight, and a blank query or
\* clearResults leaves loading as it was, true during an in-flight search.
C24_LoadingIgnoresInFlight ==
  /\ sLast.op \in {"success", "failure"} => ~sLoading
  /\ (sLast.op = "clear" \/ (sLast.op = "search" /\ LastQueryBlank)) =>
        sLoading = sLast.loading

\* C24 witness: of two overlapping searches one was answered; loading is
\* false while the other is still in flight.
C24_Witness ==
  /\ sLast.op = "success"
  /\ sLast.before = 2
  /\ Cardinality(sInflight) = 1
  /\ ~sLoading

\* =========================================================================
\*  Claims about the listing pipeline (checked under SpecList)
\* =========================================================================

\* the post is in the derived list
Listed(p) == \E i \in 1..Len(filteredAndSortedPosts) : filteredAndSortedPosts[i].id = p.id

\* C4: whatever the collection and the filter state, the derived list holds no
\* post whose status is not 'published' and no post whose published_at is null.
C4_OnlyPublishedWithDate ==
  \A i \in 1..Len(filteredAndSortedPosts) :
     /\ filteredAndSortedPosts[i].status = "published"
     /\ filteredAndSortedPosts[i].published_at # <<>>

\* C4 witness: a collection with a published post without date, a draft and a
\* dated published post, of which only the last is listed.
C4_Witness ==
  /\ \E i \in 1..Len(lposts) : lposts[i].status = "published" /\ lposts[i].published_at = <<>>
  /\ \E i \in 1..Len(lposts) : lposts[i].status = "draft"
  /\ Len(filteredAndSortedPosts) = 1
  /\ selectedCategory # "all"
  /\ showFeaturedOnly

\* C5: with category 'all' and featuredOnly off a post is listed if and only
\* if it is published, has a published_at and that date is not after now.
C5_ListedIffPublishedByNow ==
  (selectedCategory = "all" /\ ~showFeaturedOnly) =>
     \A i \in 1..Len(lposts) :
        Listed(lposts[i]) <=>
           /\ lposts[i].status = "published"
           /\ lposts[i].published_at # <<>>
           /\ lposts[i].published_at[1] <= now

\* view_count with a missing value counted as 0
Views(p) == IF Len(p.view_count) = 0 THEN 0 ELSE p.view_count[1]

\* C10: with sort key 'popular' the derived list is in descending order of
\* view_count (missing counting as 0), for every collection, category and
\* featured filter.
C10_PopularDescending ==
  sortBy = "popular" =>
     \A i, j \in 1..Len(filteredAndSortedPosts) :
        i < j => Views(filteredAndSortedPosts[i]) >= Views(filteredAndSortedPosts[j])

\* C10 witness: three posts, fetched in another order, listed by views with
\* the one without view_count last.
C10_Witness ==
  /\ sortBy = "popular"
  /\ Len(filteredAndSortedPosts) = 3
  /\ filteredAndSortedPosts[3].view_count = <<>>
  /\ lposts[1].view_count = <<>>
  /\ Views(filteredAndSortedPosts[1]) > Views(filteredAndSortedPosts[2])


\* the ids of a list of posts, in order
Ids(list) == [i \in 1..Len(list) |-> list[i].id]

Reversed(list) == [i \in 1..Len(list) |-> list[Len(list) + 1 - i]]

\* the date a post is sorted by: published_at, else created_at
SortDate(p) == IF Len(p.published_at) = 1 THEN p.published_at[1] ELSE p.created_at

\* the last two renders differ at most in the sort key
SameFilterAsBefore ==
  lastRender.cid = selectedCategory /\ lastRender.featuredOnly = showFeaturedOnly

\* C11: for one collection and one category/featured filter, when no two
\* retained posts share a sort date, the list sorted 'oldest' is the reverse
\* of the list sorted 'newest'.
C11_OldestReversesNewest ==
  ( /\ SameFilterAsBefore
    /\ {sortBy, lastRender.key} = {"newest", "oldest"}
    /\ \A i, j \in 1..Len(filteredAndSortedPosts) :
          i # j => SortDate(filteredAndSortedPosts[i]) # SortDate(filteredAndSortedPosts[j]) )
  => filteredAndSortedPosts = Reversed(lastRender.list)

\* C11 witness: three posts of different dates, listed newest first and then
\* oldest first.
C11_Witness ==
  /\ SameFilterAsBefore
  /\ sortBy = "oldest"
  /\ lastRender.key = "newest"
  /\ Ids(lastRender.list) = <<6, 3, 1>>
  /\ Ids(filteredAndSortedPosts) = <<1, 3, 6>>

\* C12: the pipeline is idempotent: run on its own output with the same
\* categories and filter state it returns the same posts in the same order,
\* also when posts tie on the sort key.
C12_Idempotent ==
  DeriveList(filteredAndSortedPosts, categories, selectedCategory, showFeaturedOnly, sortBy)
    = filteredAndSortedPosts

\* C12 witness: a derived list in which two posts tie on views and on date.
C12_Witness ==
  /\ sortBy = "popular"
  /\ Len(filteredAndSortedPosts) = 3
  /\ \E i \in 1..2 :
        /\ Views(filteredAndSortedPosts[i]) = Views(filteredAndSortedPosts[i + 1])
        /\ SortDate(filteredAndSortedPosts[i]) = SortDate(filteredAndSortedPosts[i + 1])
  /\ DeriveList(filteredAndSortedPosts, categories, selectedCategory, showFeaturedOnly, sortBy)
       = filteredAndSortedPosts

\* lower case of the letters that occur in tags and category names
Lower(c) == IF c = "K" THEN "k" ELSE IF c = "I" THEN "i" ELSE IF c = "P" THEN "p" ELSE c

\* a equals b up to the case of letters
SameIgnoringCase(a, b) ==
  Len(a) = Len(b) /\ \A i \in 1..Len(a) : Lower(a[i]) = Lower(b[i])

\* a occurs in b as a run of consecutive characters, case ignored
OccursIn(a, b) ==
  \E from \in 1..(Len(b) + 1) : \E to \in (from - 1)..Len(b) :
     SameIgnoringCase(a, SubSeq(b, from, to))

\* the post has a tag that contains the category name or is contained in it
HasTagOf(p, name) ==
  \E i \in 1..Len(p.tags) : OccursIn(p.tags[i], name) \/ OccursIn(name, p.tags[i])

\* C13: with a selected category that is in the collection, the derived list
\* holds exactly the published, dated posts (featured ones if featuredOnly)
\* with a tag that matches the category name as a case-insensitive substring
\* in either direction.
C13_CategoryByTagSubstring ==
  \A k \in 1..Len(categories) :
     categories[k].id = selectedCategory =>
        \A i \in 1..Len(lposts) :
           Listed(lposts[i]) <=>
              /\ lposts[i].status = "published"
              /\ lposts[i].published_at # <<>>
              /\ showFeaturedOnly => lposts[i].featured
              /\ HasTagOf(lposts[i], categories[k].name)

\* C13 witness: category Kultura keeps the post tagged "kult" and the post
\* tagged "Kultura" and drops the post tagged "Istorija".
C13_Witness ==
  /\ selectedCategory = "c-kultura"
  /\ ~showFeaturedOnly
  /\ Ids(lposts) = <<6, 3, 1>>
  /\ Ids(filteredAndSortedPosts) = <<6, 3>>

\* C14: with featuredOnly on, the derived list is the list derived with
\* featuredOnly off (same collection, category, sort key) cut down to its
\* featured posts, in the same order; the documented three posts give
\* [3, 1] with it off and [3] with it on.
C14_FeaturedIsSubsequence ==
  /\ ( /\ showFeaturedOnly
       /\ ~lastRender.featuredOnly
       /\ lastRender.cid = selectedCategory
       /\ lastRender.key = sortBy )
     => filteredAndSortedPosts = SelectSeq(lastRender.list, LAMBDA p : p.featured)
  /\ ( /\ {lposts[i].id : i \in 1..Len(lposts)} = {1, 2, 3}
       /\ selectedCategory = "all"
       /\ sortBy = "newest" )
     => Ids(filteredAndSortedPosts) = IF showFeaturedOnly THEN <<3>> ELSE <<3, 1>>

\* C14 witness: the three documented posts, featuredOnly switched on after
\* the list [3, 1] was shown.
C14_Witness ==
  /\ Ids(lposts) = <<3, 1, 2>>
  /\ selectedCategory = "all"
  /\ sortBy = "newest"
  /\ showFeaturedOnly
  /\ Ids(lastRender.list) = <<3, 1>>
  /\ Ids(filteredAndSortedPosts) = <<3>>

\* C26: a selected category id other than 'all' that matches no category of
\* the loaded collection filters nothing: the derived list is the one derived
\* with 'all' for the same featured flag and sort key.
C26_UnknownCategoryFiltersNothing ==
  (selectedCategory \notin Options(categories)) =>
     /\ filteredAndSortedPosts =
          DeriveList(lposts, categories, "all", showFeaturedOnly, sortBy)
     /\ \A i \in 1..Len(lposts) :
          Listed(lposts[i]) <=>
             /\ lposts[i].status = "published"
             /\ lposts[i].published_at # <<>>
             /\ showFeaturedOnly => lposts[i].featured

\* C26 witness: Kultura was selected (posts 6 and 3 shown), then the category
\* collection arrived without it: post 1, tagged Istorija, is listed again.
C26_Witness ==
  /\ selectedCategory = "c-kultura"
  /\ selectedCategory \notin Options(categories)
  /\ Ids(lposts) = <<6, 3, 1>>
  /\ Ids(lastRender.list) = <<6, 3>>
  /\ Ids(filteredAndSortedPosts) = <<6, 3, 1>>

\* =========================================================================
\*  Claims about the increment procedure (checked under SpecStore)
\* =========================================================================

\* the calls for post p that have completed
CommittedCalls(p) == {c \in Calls : txPc[c] = "committed" /\ txPost[c] = p}

\* C9: concurrent increment_post_view_count calls for one post lose no update:
\* in every interleaving the post's view_count has risen by one, and one
\* post_views row has been appended, for each completed call -- by exactly 2
\* and two rows once two calls have completed.
C9_NoLostUpdate ==
  \A p \in PostIds :
     /\ dbViews[p] = views0[p] + Cardinality(CommittedCalls(p))
     /\ dbViewRows[p] = Cardinality(CommittedCalls(p))

\* C9 witness: two calls for post 1 were in progress together and both
\* completed; the count rose by 2 and two rows were appended.
C9_Witness ==
  /\ txOverlap[1]
  /\ CommittedCalls(1) = {1, 2}
  /\ dbViews[1] = views0[1] + 2
  /\ dbViewRows[1] = 2

\* =========================================================================
\*  Claims about the usePosts mutations (checked under SpecPosts)
\* =========================================================================

\* C15: through any sequence of addPost, updatePost and incrementViewCount a
\* stored post's view_count is an integer >= 0 and is never smaller after a
\* call than before it.
C15_ViewCountNonNegativeMonotone ==
  \A id \in StoredIds :
     tblPosts[id] # <<>> =>
        /\ tblPosts[id][1] >= 0
        /\ tblBefore[id] # <<>> => tblPosts[id][1] >= tblBefore[id][1]

\* =========================================================================
\*  Claims about useComments (checked under SpecComments)
\* =========================================================================

\* C16: every comment in the hook's list has status 'approved' and the hook's
\* postId; every comment made by addComment was stored as 'pending', whatever
\* status the caller passed, and is in the list only after it was approved.
C16_OnlyApprovedVisible ==
  /\ \A i \in 1..Len(comments) :
        /\ comments[i].status = "approved"
        /\ cPostId = <<comments[i].post_id>>
        /\ comments[i].id \in cEverApproved
  /\ \A i \in 1..Len(cCreatedAs) : cCreatedAs[i] = "pending"

\* C16 witness: the table holds an approved and a not approved comment of
\* the hook's post, and the hook lists only the approved one.
C16_Witness ==
  /\ cPostId = <<1>>
  /\ Len(tblComments) = 2
  /\ tblComments[1].post_id = 1 /\ tblComments[1].status = "pending"
  /\ tblComments[2].post_id = 1 /\ tblComments[2].status = "approved"
  /\ cInflight = {}
  /\ Len(comments) = 1 /\ comments[1].id = 2


\* =========================================================================
\*  Claims about the hooks' mutation and error policy
\* =========================================================================

\* a mutation call that ended with its write done has started a refetch
Refetched(last) == (last.op # "none" /\ last.ok) => last.refetched

\* C21: every mutating hook operation, once its write has succeeded, re-fetches
\* its hook's collection before it resolves (usePosts' addPost, updatePost,
\* deletePost, incrementViewCount and useComments' addComment).
C21_MutationsRefetch == Refetched(lastMut) /\ Refetched(cLastMut)



\* C22: an operation whose store request fails puts a message into its
\* hook's error slot, leaves loading = false and does not throw to its caller
\* (here: usePosts' fetchPosts and its four mutations).
C22_FailuresCapturedNotThrown ==
  /\ (lastMut.op # "none" /\ ~lastMut.ok) =>
        (hookError # Null /\ ~lastMut.threw /\ (hookFetches = 0 => ~hookLoading))
  /\ (lastFetch = "failed" /\ hookFetches = 0) => (hookError # Null /\ ~hookLoading)



\* C25: the error slot of usePosts is sticky: once a fetch has failed, no
\* later operation of the hook resets error, so a later successful refetch
\* leaves fresh data together with the old error.
C25_ErrorIsSticky == fetchFailedOnce => hookError # Null

\* C25 witness: a fetch failed, then a post was added and its refetch
\* succeeded: the hook holds the stored rows and still the error.
C25_Witness ==
  /\ fetchFailedOnce
  /\ lastMut.op = "addPost" /\ lastMut.ok
  /\ lastFetch = "ok"
  /\ hookFetches = 0
  /\ hookPosts = tblPosts
  /\ tblPosts[1] # <<>>
  /\ ~hookLoading
  /\ hookError # Null



\* =========================================================================
\*  Claims about useNewsletter (checked under SpecNews)
\* =========================================================================

\* C27: an address cannot be subscribed again through the hook: a subscribe
\* for an address that has a row (in particular an unsubscribed one) fails on
\* the unique-email constraint, sets the error slot, rethrows and leaves the
\* row's status as it was; an unsubscribe for an address without a row ends
\* without error (it neither throws nor writes the error slot) and changes
\* nothing.
C27_NoResubscribe ==
  /\ (nLast.op = "subscribe" /\ nLast.before # "none" /\ nLast.outcome # "network") =>
        /\ nLast.outcome = "unique"
        /\ nLast.threw
        /\ nError # Null
        /\ tblNews[nLast.email] = nLast.before
  /\ (nLast.op = "unsubscribe" /\ nLast.before = "none" /\ nLast.outcome # "network") =>
        /\ ~nLast.threw
        /\ nError = nLast.errorBefore
        /\ tblNews = [e \in Emails |-> IF e = nLast.email THEN "none" ELSE tblNews[e]]

\* C27 witness: the address was subscribed and unsubscribed, and a further
\* subscribe has just failed on the unique constraint; the row is still
\* unsubscribed.
C27_Witness ==
  /\ nLast.op = "subscribe"
  /\ nLast.before = "unsubscribed"
  /\ nLast.outcome = "unique"
  /\ nLast.threw
  /\ nError = "unique"
  /\ ~nLoading
  /\ tblNews[nLast.email] = "unsubscribed"


=============================================================================
